---- MODULE Spec2Model ----
(***************************************************************************)
(* State-machine model of migrate_7.py (rhel2centos): the checkpointed     *)
(* pipeline of main(), the status document kept in STATUS_JSON_FILE, and   *)
(* the host facts the stages read and change.                              *)
(*                                                                         *)
(* A run of main() is a process with a program counter: pc is the function *)
(* of migrate_7.py the run is in, at is the position inside it.  External  *)
(* commands are steps whose outcome (success / failure) is chosen by the   *)
(* environment.  A run may be killed between any two steps.                *)
(***************************************************************************)
EXTENDS Naturals, Sequences, FiniteSets, TLC

\* ------------------------------------------------------------------------
\* Program constants
\* ------------------------------------------------------------------------

SUPPORTED_MAJOR_VERSION_OS == 7

SUPPORTED_NAME_OS == "redhat"

\* removed_pkgs of remove_redhat_packages
removed_pkgs_redhat == <<"redhat-release-eula", "redhat-release-server", "redhat-logos">>

\* removed_pkgs of remove_katello_satellite_packages
removed_pkgs_katello == <<"python-qpid-proton", "katello-agent">>

\* removed_dirs of remove_not_needed_dirs
removed_dirs == <<"/usr/share/redhat-release", "/usr/share/doc/redhat-release">>

\* installed_pkgs of install_centos_packages (the keys, in iteration order)
installed_pkgs == <<"centos-release", "centos-logos">>

\* pkg_prefixes of get_pkgs_related_to_secure_boot, as character sequences
pkg_prefixes ==
    { <<"s","h","i","m">>,
      <<"f","w","u","p","d">>,
      <<"g","r","u","b","2">>,
      <<"k","e","r","n","e","l","-">> }

EFI_GRUB_CFG == "/boot/efi/EFI/centos/grub.cfg"

LEGACY_GRUB_CFG == "/boot/grub2/grub.cfg"

\* The stage identifiers written to the status document, in the order main()
\* reaches them.
Pipeline ==
    << "check_supported_os",
       "remove_redhat_packages",
       "remove_not_needed_dirs",
       "remove_katello_satellite_packages",
       "install_centos_packages",
       "update_the_system",
       "synchronization_of_distribution",
       "recreate_grub_config",
       "reinstall_secure_boot_related_packages",
       "add_boot_record_by_efibootmgr",
       "check_and_set_default_grub_record",
       "completed" >>

Keys == { Pipeline[n] : n \in DOMAIN Pipeline }

\* The stages with a guard and a body ('completed' is only a flag).
Stages == Keys \ {"completed"}

\* The stages whose body changes the host (check_supported_os only probes).
MutatingStages == Stages \ {"check_supported_os"}

Pos(s) == CHOOSE n \in DOMAIN Pipeline : Pipeline[n] = s

After(s, t) == Pos(s) > Pos(t)

\* ------------------------------------------------------------------------
\* Inputs the environment can present
\* ------------------------------------------------------------------------

\* The runs of main().  Sequential use has one process active at a time.
Procs == {"run1", "run2"}

SeqProcs == {"run1"}

Digit == [c \in {"0","1","2","3","4","5","6","7","8","9"} |->
            CASE c = "0" -> 0 [] c = "1" -> 1 [] c = "2" -> 2 [] c = "3" -> 3
              [] c = "4" -> 4 [] c = "5" -> 5 [] c = "6" -> 6 [] c = "7" -> 7
              [] c = "8" -> 8 [] c = "9" -> 9]

\* Outputs of platform.dist(): (os_name, os_version); os_version is a string,
\* kept as its characters.
DistOutputs ==
    { [os_name |-> "redhat", os_version |-> <<"7",".","9">>],
      [os_name |-> "redhat", os_version |-> <<"6",".","1","0">>],
      [os_name |-> "centos", os_version |-> <<"7",".","9",".","2","0","0","9">>],
      [os_name |-> "",       os_version |-> <<>>],
      [os_name |-> "Ubuntu", os_version |-> <<"1","6",".","0","4">>],
      [os_name |-> "SuSE",   os_version |-> <<"1","1">>] }

NoDist == [os_name |-> "unprobed", os_version |-> <<>>]

\* The packages the two removal stages and is_katello_satelite ask rpm about.
InitialRedhatPkgs ==
    { {"redhat-release-eula", "redhat-release-server", "redhat-logos"},
      {"redhat-release-server"},
      {} }

InitialKatelloPkgs ==
    { {},
      {"python-qpid-proton"},
      {"python-qpid-proton", "python2-qpid-proton"},
      {"python-qpid-proton", "python2-qpid-proton", "katello-agent"} }

InitialDirs ==
    { {"/usr/share/redhat-release", "/usr/share/doc/redhat-release"},
      {"/usr/share/redhat-release"},
      {} }

\* rpm database rows for 'rpm -qa --queryformat "%{name}\t%{nvra}\t%{vendor}"'.
RedHat == "Red Hat, Inc."

CentOS == "CentOS"

InitialRpmDbs ==
    { { [name |-> "shim-x64",     pkg |-> "shim-x64-15-8.el7.x86_64",           vendor |-> RedHat],
        [name |-> "kernel",       pkg |-> "kernel-3.10.0-1160.el7.x86_64",      vendor |-> RedHat],
        [name |-> "bash",         pkg |-> "bash-4.2.46-34.el7.x86_64",          vendor |-> RedHat] },
      { [name |-> "shim-x64",     pkg |-> "shim-x64-15-8.el7.x86_64",           vendor |-> CentOS],
        [name |-> "kernel-tools", pkg |-> "kernel-tools-3.10.0-1160.el7.x86_64", vendor |-> RedHat],
        [name |-> "kernel",       pkg |-> "kernel-3.10.0-1160.el7.x86_64",      vendor |-> CentOS],
        [name |-> "bash",         pkg |-> "bash-4.2.46-34.el7.x86_64",          vendor |-> RedHat] } }

\* The package grubby's default kernel belongs to.
DefaultKernelName == "kernel"

\* ------------------------------------------------------------------------
\* State
\* ------------------------------------------------------------------------

VARIABLES
    \* the host
    status_file,      \* STATUS_JSON_FILE: [state, flags]; flags = the keys mapped to true
    installed,        \* the packages (of those the removal stages name) rpm -q finds
    dirs,             \* the paths of removed_dirs that are real directories
    rpmdb,            \* rows of the rpm database read by the secure-boot stage
    efi,              \* whether /sys/firmware/efi exists
    \* one run of main()
    pc,               \* the function of migrate_7.py the run is in
    at,               \* the position inside it: guard, query, body, read, open, dump
    i,                \* the index of the for loop of the current stage
    statuses,         \* the local 'statuses' of set_successful_stage_status
    grub_config_path, \* the argument main() passes to recreate_grub_config
    pkgs,             \* the local 'pkgs' of reinstall_secure_boot_related_packages
    todo,             \* the keys of pkgs the for loop has not visited yet
    \* what the run observed and did (reset when a run starts)
    facts,            \* the probes' answers in this run
    ran,              \* the stages whose body this run entered
    cmds,             \* the mutating commands this run issued, as <<command, argument>>
    start_file,       \* the status document when the run started
    body_file,        \* the status document when the current stage's body started
    wrote,            \* whether this run opened the status document for writing
    failed,           \* the stage in whose body this run ended with exit code 1
    \* history over all runs
    written,          \* the keys set_successful_stage_status has completed for
    completed_bodies, \* the stages whose body has run to its end without a failure
    retry_due         \* the stage a run hard-failed in and no run has re-entered since

hostvars == <<status_file, installed, dirs, rpmdb, efi>>

ctlvars == <<pc, at, i, statuses, grub_config_path, pkgs, todo>>

obsvars == <<facts, ran, cmds, start_file, body_file, wrote, failed>>

histvars == <<written, completed_bodies, retry_due>>

vars == <<hostvars, ctlvars, obsvars, histvars>>

\* ------------------------------------------------------------------------
\* Pure functions of migrate_7.py
\* ------------------------------------------------------------------------

\* get_stage_status: "False" when the file does not exist, the ValueError of
\* json.load when its content is no JSON document, otherwise
\* .get(stage_name, False).
get_stage_status(stage_name) ==
    IF status_file.state = "absent" THEN "False"
    ELSE IF status_file.state = "corrupt" THEN "ValueError"
    ELSE IF stage_name \in status_file.flags THEN "True"
    ELSE "False"

IsDigit(c) == c \in DOMAIN Digit

\* get_os_version_and_name on platform.dist()'s answer: int(os_version[0]),
\* int(os_version[2]) (Python indexes from 0), raising IndexError / ValueError
\* when those characters are missing or no digits.
get_os_version_and_name(dist) ==
    IF dist.os_name = ""
    THEN [raised |-> FALSE, major |-> 0, minor |-> 0, name |-> ""]
    ELSE IF Len(dist.os_version) < 3
            \/ ~IsDigit(dist.os_version[1])
            \/ ~IsDigit(dist.os_version[3])
    THEN [raised |-> TRUE, major |-> 0, minor |-> 0, name |-> dist.os_name]
    ELSE [raised |-> FALSE,
          major |-> Digit[dist.os_version[1]],
          minor |-> Digit[dist.os_version[3]],
          name |-> dist.os_name]

\* Faulty variant: one installed package is enough (OR instead of AND).
is_katello_satelite_any(rpm_q) ==
    IF "python-qpid-proton" \in rpm_q THEN TRUE
    ELSE IF "python2-qpid-proton" \in rpm_q THEN TRUE
    ELSE FALSE

\* is_katello_satelite: two 'rpm -q' calls, each returning False when the
\* package is not installed.
is_katello_satelite_result(rpm_q) ==
    IF "python-qpid-proton" \notin rpm_q THEN FALSE
    ELSE IF "python2-qpid-proton" \notin rpm_q THEN FALSE
    ELSE TRUE

\* is_efi_system: os.path.exists('/sys/firmware/efi')
is_efi_system_result == efi

\* The characters of the package names of the rpm database.
NameChars(name) ==
    CASE name = "shim-x64"     -> <<"s","h","i","m","-","x","6","4">>
      [] name = "kernel"       -> <<"k","e","r","n","e","l">>
      [] name = "kernel-tools" -> <<"k","e","r","n","e","l","-","t","o","o","l","s">>
      [] name = "bash"         -> <<"b","a","s","h">>

startswith(s, prefix) ==
    /\ Len(prefix) <= Len(s)
    /\ SubSeq(s, 1, Len(prefix)) = prefix

\* str.lower() on the vendor strings of the rpm database
lower(vendor) ==
    CASE vendor = "CentOS" -> "centos"
      [] vendor = "Red Hat, Inc." -> "red hat, inc."
      [] OTHER -> vendor

EmptyDict == [k \in {} |-> ""]

\* dict.update
update(d, e) ==
    [k \in DOMAIN d \cup DOMAIN e |-> IF k \in DOMAIN e THEN e[k] ELSE d[k]]

\* get_pkgs_related_to_secure_boot: result[pkg] = vendor.lower() for the rows
\* whose name starts with one of pkg_prefixes.
get_pkgs_related_to_secure_boot ==
    LET rows == { r \in rpmdb :
                    \E pkg_prefix \in pkg_prefixes :
                        startswith(NameChars(r.name), pkg_prefix) }
    IN  [k \in { r.pkg : r \in rows } |->
            lower((CHOOSE r \in rows : r.pkg = k).vendor)]

\* get_kernel_pkg_name_for_default_boot_record: {kernel_pkg_name: vendor.lower()}
\* for the package owning grubby's default kernel.
get_kernel_pkg_name_for_default_boot_record ==
    LET rows == { r \in rpmdb : r.name = DefaultKernelName }
    IN  [k \in { r.pkg : r \in rows } |->
            lower((CHOOSE r \in rows : r.pkg = k).vendor)]

\* Faulty variant: synchronization_of_distribution is called before
\* update_the_system.
main_next_sync_first(p, fn) ==
    CASE fn = "is_conversion_completed" -> "is_run_under_root"
      [] fn = "is_run_under_root" -> "check_supported_os"
      [] fn = "check_supported_os" -> "remove_redhat_packages"
      [] fn = "remove_redhat_packages" -> "remove_not_needed_dirs"
      [] fn = "remove_not_needed_dirs" -> "is_katello_satelite"
      [] fn = "remove_katello_satellite_packages" -> "install_centos_packages"
      [] fn = "install_centos_packages" -> "synchronization_of_distribution"
      [] fn = "synchronization_of_distribution" -> "update_the_system"
      [] fn = "update_the_system" -> "is_efi_system"
      [] fn = "recreate_grub_config" ->
            IF grub_config_path[p] = EFI_GRUB_CFG
            THEN "reinstall_secure_boot_related_packages"
            ELSE "check_and_set_default_grub_record"
      [] fn = "reinstall_secure_boot_related_packages" -> "add_boot_record_by_efibootmgr"
      [] fn = "add_boot_record_by_efibootmgr" -> "check_and_set_default_grub_record"
      [] fn = "check_and_set_default_grub_record" -> "completed"
      [] fn = "completed" -> "exit0"

\* Faulty variant: on the legacy branch the run is marked completed right
\* after recreate_grub_config.
main_next_legacy_skips_default_record(p, fn) ==
    CASE fn = "is_conversion_completed" -> "is_run_under_root"
      [] fn = "is_run_under_root" -> "check_supported_os"
      [] fn = "check_supported_os" -> "remove_redhat_packages"
      [] fn = "remove_redhat_packages" -> "remove_not_needed_dirs"
      [] fn = "remove_not_needed_dirs" -> "is_katello_satelite"
      [] fn = "remove_katello_satellite_packages" -> "install_centos_packages"
      [] fn = "install_centos_packages" -> "update_the_system"
      [] fn = "update_the_system" -> "synchronization_of_distribution"
      [] fn = "synchronization_of_distribution" -> "is_efi_system"
      [] fn = "recreate_grub_config" ->
            IF grub_config_path[p] = EFI_GRUB_CFG
            THEN "reinstall_secure_boot_related_packages"
            ELSE "completed"
      [] fn = "reinstall_secure_boot_related_packages" -> "add_boot_record_by_efibootmgr"
      [] fn = "add_boot_record_by_efibootmgr" -> "check_and_set_default_grub_record"
      [] fn = "check_and_set_default_grub_record" -> "completed"
      [] fn = "completed" -> "exit0"

\* The function main() calls after `fn` returns.
main_next(p, fn) ==
    CASE fn = "is_conversion_completed" -> "is_run_under_root"
      [] fn = "is_run_under_root" -> "check_supported_os"
      [] fn = "check_supported_os" -> "remove_redhat_packages"
      [] fn = "remove_redhat_packages" -> "remove_not_needed_dirs"
      [] fn = "remove_not_needed_dirs" -> "is_katello_satelite"
      [] fn = "remove_katello_satellite_packages" -> "install_centos_packages"
      [] fn = "install_centos_packages" -> "update_the_system"
      [] fn = "update_the_system" -> "synchronization_of_distribution"
      [] fn = "synchronization_of_distribution" -> "is_efi_system"
      [] fn = "recreate_grub_config" ->
            IF grub_config_path[p] = EFI_GRUB_CFG
            THEN "reinstall_secure_boot_related_packages"
            ELSE "check_and_set_default_grub_record"
      [] fn = "reinstall_secure_boot_related_packages" -> "add_boot_record_by_efibootmgr"
      [] fn = "add_boot_record_by_efibootmgr" -> "check_and_set_default_grub_record"
      [] fn = "check_and_set_default_grub_record" -> "completed"
      [] fn = "completed" -> "exit0"

\* ------------------------------------------------------------------------
\* Initial state: a host on which the program has never run
\* ------------------------------------------------------------------------

NoFacts ==
    [euid |-> "unprobed", dist |-> NoDist, os |-> "unprobed",
     katello |-> "unprobed", efi |-> "unprobed", grub_default |-> "unprobed",
     secure_boot |-> "unprobed"]

NoFile == [state |-> "absent", flags |-> {}]

Init ==
    /\ status_file = NoFile
    /\ \E r \in InitialRedhatPkgs, k \in InitialKatelloPkgs : installed = r \cup k
    /\ dirs \in InitialDirs
    /\ rpmdb \in InitialRpmDbs
    /\ efi \in BOOLEAN
    /\ pc = [p \in Procs |-> "idle"]
    /\ at = [p \in Procs |-> "guard"]
    /\ i = [p \in Procs |-> 1]
    /\ statuses = [p \in Procs |-> {}]
    /\ grub_config_path = [p \in Procs |-> ""]
    /\ pkgs = [p \in Procs |-> EmptyDict]
    /\ todo = [p \in Procs |-> {}]
    /\ facts = [p \in Procs |-> NoFacts]
    /\ ran = [p \in Procs |-> {}]
    /\ cmds = [p \in Procs |-> {}]
    /\ start_file = [p \in Procs |-> NoFile]
    /\ body_file = [p \in Procs |-> NoFile]
    /\ wrote = [p \in Procs |-> FALSE]
    /\ failed = [p \in Procs |-> "none"]
    /\ written = {}
    /\ completed_bodies = {}
    /\ retry_due = "none"

\* ------------------------------------------------------------------------
\* Steps shared by the functions
\* ------------------------------------------------------------------------

Stopped(p) == pc[p] \in {"idle", "exit0", "exit1", "killed"}

\* main() moves on to function fn (or the process ends: exit0 / exit1).
Goto(p, fn) ==
    /\ pc' = [pc EXCEPT ![p] = fn]
    /\ at' = [at EXCEPT ![p] = IF fn = "completed" THEN "read" ELSE "guard"]

\* Faulty variant: the guard's answer is ignored and the body always entered.
Guard_always_enters(p, stage, first) ==
    LET r == get_stage_status(stage) IN
    /\ pc[p] = stage
    /\ at[p] = "guard"
    /\ IF r # "ValueError"
       THEN /\ at' = [at EXCEPT ![p] = first]
            /\ i' = [i EXCEPT ![p] = 1]
            /\ ran' = [ran EXCEPT ![p] = @ \cup {stage}]
            /\ body_file' = [body_file EXCEPT ![p] = status_file]
            /\ retry_due' = IF retry_due = stage THEN "none" ELSE retry_due
            /\ UNCHANGED pc
       ELSE /\ Goto(p, "exit1")
            /\ UNCHANGED <<i, ran, body_file, retry_due>>
    /\ UNCHANGED <<hostvars, statuses, grub_config_path, pkgs, todo>>
    /\ UNCHANGED <<facts, cmds, start_file, wrote, failed, written, completed_bodies>>

\* Faulty variant: a stage another run is in the body of is taken as done.
Guard_skips_busy_stage(p, stage, first) ==
    LET r == get_stage_status(stage)
        busy == \E q \in Procs \ {p} : pc[q] = stage /\ at[q] \in {"query", "body"}
    IN
    /\ pc[p] = stage
    /\ at[p] = "guard"
    /\ IF r = "False" /\ ~busy
       THEN /\ at' = [at EXCEPT ![p] = first]
            /\ i' = [i EXCEPT ![p] = 1]
            /\ ran' = [ran EXCEPT ![p] = @ \cup {stage}]
            /\ body_file' = [body_file EXCEPT ![p] = status_file]
            /\ retry_due' = IF retry_due = stage THEN "none" ELSE retry_due
            /\ UNCHANGED pc
       ELSE /\ Goto(p, IF r = "ValueError" THEN "exit1" ELSE main_next(p, stage))
            /\ UNCHANGED <<i, ran, body_file, retry_due>>
    /\ UNCHANGED <<hostvars, statuses, grub_config_path, pkgs, todo>>
    /\ UNCHANGED <<facts, cmds, start_file, wrote, failed, written, completed_bodies>>

\* 'if get_stage_status(stage): return' at the top of a stage; the body is
\* entered at position `first` otherwise.  A ValueError of json.load is not
\* caught anywhere: the interpreter ends with exit code 1.
Guard(p, stage, first) ==
    LET r == get_stage_status(stage) IN
    /\ pc[p] = stage
    /\ at[p] = "guard"
    /\ IF r = "False"
       THEN /\ at' = [at EXCEPT ![p] = first]
            /\ i' = [i EXCEPT ![p] = 1]
            /\ ran' = [ran EXCEPT ![p] = @ \cup {stage}]
            /\ body_file' = [body_file EXCEPT ![p] = status_file]
            /\ retry_due' = IF retry_due = stage THEN "none" ELSE retry_due
            /\ UNCHANGED pc
       ELSE /\ Goto(p, IF r = "True" THEN main_next(p, stage) ELSE "exit1")
            /\ UNCHANGED <<i, ran, body_file, retry_due>>
    /\ UNCHANGED <<hostvars, statuses, grub_config_path, pkgs, todo>>
    /\ UNCHANGED <<facts, cmds, start_file, wrote, failed, written, completed_bodies>>

\* The body of the current stage ran to its end: set_successful_stage_status
\* is called next.
BodyDone(p) ==
    /\ at' = [at EXCEPT ![p] = "read"]
    /\ completed_bodies' = completed_bodies \cup {pc[p]}
    /\ UNCHANGED <<pc, retry_due, failed>>

\* Faulty variant: the failure is logged and the stage goes on to mark itself
\* complete.
HardFailure_swallowed(p) ==
    /\ at' = [at EXCEPT ![p] = "read"]
    /\ retry_due' = pc[p]
    /\ failed' = [failed EXCEPT ![p] = pc[p]]
    /\ UNCHANGED <<pc, completed_bodies>>

\* exit(1) in the body of the current stage (or an exception nothing catches).
HardFailure(p) ==
    /\ pc' = [pc EXCEPT ![p] = "exit1"]
    /\ retry_due' = pc[p]
    /\ failed' = [failed EXCEPT ![p] = pc[p]]
    /\ UNCHANGED <<at, completed_bodies>>

Issue(p, command, argument) ==
    cmds' = [cmds EXCEPT ![p] = @ \cup {<<command, argument>>}]

\* ------------------------------------------------------------------------
\* The operator starts main(); a run is killed
\* ------------------------------------------------------------------------

StartRun(p) ==
    /\ Stopped(p)
    /\ pc' = [pc EXCEPT ![p] = "is_conversion_completed"]
    /\ at' = [at EXCEPT ![p] = "guard"]
    /\ i' = [i EXCEPT ![p] = 1]
    /\ statuses' = [statuses EXCEPT ![p] = {}]
    /\ grub_config_path' = [grub_config_path EXCEPT ![p] = ""]
    /\ pkgs' = [pkgs EXCEPT ![p] = EmptyDict]
    /\ todo' = [todo EXCEPT ![p] = {}]
    /\ facts' = [facts EXCEPT ![p] = NoFacts]
    /\ ran' = [ran EXCEPT ![p] = {}]
    /\ cmds' = [cmds EXCEPT ![p] = {}]
    /\ start_file' = [start_file EXCEPT ![p] = status_file]
    /\ body_file' = [body_file EXCEPT ![p] = status_file]
    /\ wrote' = [wrote EXCEPT ![p] = FALSE]
    /\ failed' = [failed EXCEPT ![p] = "none"]
    /\ UNCHANGED <<hostvars, histvars>>

Kill(p) ==
    /\ ~Stopped(p)
    /\ pc' = [pc EXCEPT ![p] = "killed"]
    /\ UNCHANGED <<hostvars, at, i, statuses, grub_config_path, pkgs, todo>>
    /\ UNCHANGED <<obsvars, histvars>>

\* ------------------------------------------------------------------------
\* The status store
\* ------------------------------------------------------------------------

\* set_successful_stage_status(stage_name), stage_name being the stage the
\* run is in: read the document (or start empty), set the key, open the file
\* for writing (which truncates it), dump and close.
\* Faulty variant: the document read is dropped, only the new key is dumped.
set_key_forgets(stage_name) == {stage_name}

\* The dict set_successful_stage_status dumps: the document read (or {}),
\* with statuses[stage_name] = True.
set_key(stage_name) ==
    (IF status_file.state = "absent" THEN {} ELSE status_file.flags) \cup {stage_name}

set_successful_stage_status(p) ==
    /\ ~Stopped(p)
    /\ \/ /\ at[p] = "read"
          /\ IF status_file.state = "corrupt"
             THEN /\ Goto(p, "exit1")
                  /\ UNCHANGED statuses
             ELSE /\ statuses' = [statuses EXCEPT ![p] = set_key(pc[p])]
                  /\ at' = [at EXCEPT ![p] = "open"]
                  /\ UNCHANGED pc
          /\ UNCHANGED <<status_file, wrote, written>>
       \/ /\ at[p] = "open"
          /\ status_file' = [state |-> "corrupt", flags |-> {}]
          /\ wrote' = [wrote EXCEPT ![p] = TRUE]
          /\ at' = [at EXCEPT ![p] = "dump"]
          /\ UNCHANGED <<pc, statuses, written>>
       \/ /\ at[p] = "dump"
          /\ status_file' = [state |-> "valid", flags |-> statuses[p]]
          /\ written' = written \cup {pc[p]}
          /\ Goto(p, main_next(p, pc[p]))
          /\ UNCHANGED <<statuses, wrote>>
    /\ UNCHANGED <<installed, dirs, rpmdb, efi, i, grub_config_path, pkgs, todo>>
    /\ UNCHANGED <<facts, ran, cmds, start_file, body_file, failed, completed_bodies, retry_due>>

\* ------------------------------------------------------------------------
\* The entry checks of main()
\* ------------------------------------------------------------------------

\* Faulty variant: the completion flag is read but the run goes on.
is_conversion_completed_goes_on(p) ==
    LET r == get_stage_status("completed") IN
    /\ pc[p] = "is_conversion_completed"
    /\ Goto(p, IF r = "ValueError" THEN "exit1"
               ELSE main_next(p, "is_conversion_completed"))
    /\ UNCHANGED <<hostvars, i, statuses, grub_config_path, pkgs, todo>>
    /\ UNCHANGED <<obsvars, histvars>>

is_conversion_completed(p) ==
    LET r == get_stage_status("completed") IN
    /\ pc[p] = "is_conversion_completed"
    /\ Goto(p, IF r = "True" THEN "exit0"
               ELSE IF r = "False" THEN main_next(p, "is_conversion_completed")
               ELSE "exit1")
    /\ UNCHANGED <<hostvars, i, statuses, grub_config_path, pkgs, todo>>
    /\ UNCHANGED <<obsvars, histvars>>

\* os.geteuid() is the operator's choice of account.
is_run_under_root(p) ==
    /\ pc[p] = "is_run_under_root"
    /\ \E euid \in {"root", "user"} :
          /\ facts' = [facts EXCEPT ![p].euid = euid]
          /\ Goto(p, IF euid # "root" THEN "exit0"
                     ELSE main_next(p, "is_run_under_root"))
    /\ UNCHANGED <<hostvars, i, statuses, grub_config_path, pkgs, todo>>
    /\ UNCHANGED <<ran, cmds, start_file, body_file, wrote, failed, histvars>>

\* Faulty variant: only the major version is tested, not the name.
unsupported_os_version_only(v) ==
    IF v.major # SUPPORTED_MAJOR_VERSION_OS THEN TRUE
    ELSE FALSE

\* The two tests of check_supported_os that end the run with exit(0).
unsupported_os(v) ==
    IF v.major # SUPPORTED_MAJOR_VERSION_OS THEN TRUE
    ELSE IF v.name # SUPPORTED_NAME_OS THEN TRUE
    ELSE FALSE

check_supported_os(p) ==
    \/ Guard(p, "check_supported_os", "body")
    \/ /\ pc[p] = "check_supported_os"
       /\ at[p] = "body"
       /\ \E dist \in DistOutputs :
            LET v == get_os_version_and_name(dist) IN
            IF v.raised
            THEN /\ facts' = [facts EXCEPT ![p].dist = dist, ![p].os = "raised"]
                 /\ Goto(p, "exit1")
                 /\ UNCHANGED completed_bodies
            ELSE IF unsupported_os(v)
            THEN /\ facts' = [facts EXCEPT ![p].dist = dist, ![p].os = "unsupported"]
                 /\ Goto(p, "exit0")
                 /\ UNCHANGED completed_bodies
            ELSE /\ facts' = [facts EXCEPT ![p].dist = dist, ![p].os = "supported"]
                 /\ at' = [at EXCEPT ![p] = "read"]
                 /\ completed_bodies' = completed_bodies \cup {"check_supported_os"}
                 /\ UNCHANGED pc
       /\ UNCHANGED <<hostvars, i, statuses, grub_config_path, pkgs, todo>>
       /\ UNCHANGED <<ran, cmds, start_file, body_file, wrote, failed, written, retry_due>>

\* ------------------------------------------------------------------------
\* The stages
\* ------------------------------------------------------------------------

\* The for loop moves to its next element, or the body ends after the last.
Advance(p, last) ==
    IF last
    THEN BodyDone(p) /\ UNCHANGED i
    ELSE /\ i' = [i EXCEPT ![p] = @ + 1]
         /\ UNCHANGED <<pc, at, completed_bodies, retry_due, failed>>

\* Faulty variant: a package that is not installed ends the run like a
\* failed removal.
RemoveLoop_absent_fails(p, stage, removed_pkgs) ==
    LET removed_pkg == removed_pkgs[i[p]]
        last == i[p] = Len(removed_pkgs)
    IN
    /\ pc[p] = stage
    /\ at[p] = "body"
    /\ \/ /\ removed_pkg \notin installed
          /\ HardFailure(p)
          /\ UNCHANGED <<installed, cmds, i>>
       \/ /\ removed_pkg \in installed
          /\ Issue(p, "rpm -e --nodeps", removed_pkg)
          /\ installed' = installed \ {removed_pkg}
          /\ Advance(p, last)
       \/ /\ removed_pkg \in installed
          /\ Issue(p, "rpm -e --nodeps", removed_pkg)
          /\ HardFailure(p)
          /\ UNCHANGED <<installed, i>>
    /\ UNCHANGED <<status_file, dirs, rpmdb, efi, statuses, grub_config_path, pkgs, todo>>
    /\ UNCHANGED <<facts, ran, start_file, body_file, wrote, written>>

\* 'for removed_pkg in removed_pkgs': rpm -q, then rpm -e --nodeps.
RemoveLoop(p, stage, removed_pkgs) ==
    LET removed_pkg == removed_pkgs[i[p]]
        last == i[p] = Len(removed_pkgs)
    IN
    /\ pc[p] = stage
    /\ at[p] = "body"
    /\ \/ /\ removed_pkg \notin installed
          /\ Advance(p, last)
          /\ UNCHANGED <<installed, cmds>>
       \/ /\ removed_pkg \in installed
          /\ Issue(p, "rpm -e --nodeps", removed_pkg)
          /\ installed' = installed \ {removed_pkg}
          /\ Advance(p, last)
       \/ /\ removed_pkg \in installed
          /\ Issue(p, "rpm -e --nodeps", removed_pkg)
          /\ HardFailure(p)
          /\ UNCHANGED <<installed, i>>
    /\ UNCHANGED <<status_file, dirs, rpmdb, efi, statuses, grub_config_path, pkgs, todo>>
    /\ UNCHANGED <<facts, ran, start_file, body_file, wrote, written>>

\* A stage whose body is one command: success, or failure and exit(1).
OneCommand(p, stage, command, argument) ==
    /\ pc[p] = stage
    /\ at[p] = "body"
    /\ Issue(p, command, argument)
    /\ \/ BodyDone(p)
       \/ HardFailure(p)
    /\ UNCHANGED <<hostvars, i, statuses, grub_config_path, pkgs, todo>>
    /\ UNCHANGED <<facts, ran, start_file, body_file, wrote, written>>

remove_redhat_packages(p) ==
    \/ Guard(p, "remove_redhat_packages", "body")
    \/ RemoveLoop(p, "remove_redhat_packages", removed_pkgs_redhat)

\* shutil.rmtree raises OSError when it fails; nothing catches it.
remove_not_needed_dirs(p) ==
    \/ Guard(p, "remove_not_needed_dirs", "body")
    \/ LET removed_dir == removed_dirs[i[p]]
           last == i[p] = Len(removed_dirs)
       IN
       /\ pc[p] = "remove_not_needed_dirs"
       /\ at[p] = "body"
       /\ \/ /\ removed_dir \notin dirs
             /\ Advance(p, last)
             /\ UNCHANGED <<dirs, cmds>>
          \/ /\ removed_dir \in dirs
             /\ Issue(p, "shutil.rmtree", removed_dir)
             /\ dirs' = dirs \ {removed_dir}
             /\ Advance(p, last)
          \/ /\ removed_dir \in dirs
             /\ Issue(p, "shutil.rmtree", removed_dir)
             /\ HardFailure(p)
             /\ UNCHANGED <<dirs, i>>
       /\ UNCHANGED <<status_file, installed, rpmdb, efi, statuses, grub_config_path, pkgs, todo>>
       /\ UNCHANGED <<facts, ran, start_file, body_file, wrote, written>>

\* 'if is_katello_satelite(): remove_katello_satellite_packages()' in main()
is_katello_satelite(p) ==
    LET r == is_katello_satelite_result(installed) IN
    /\ pc[p] = "is_katello_satelite"
    /\ facts' = [facts EXCEPT ![p].katello = IF r THEN "True" ELSE "False"]
    /\ Goto(p, IF r THEN "remove_katello_satellite_packages"
               ELSE "install_centos_packages")
    /\ UNCHANGED <<hostvars, i, statuses, grub_config_path, pkgs, todo>>
    /\ UNCHANGED <<ran, cmds, start_file, body_file, wrote, failed, histvars>>

remove_katello_satellite_packages(p) ==
    \/ Guard(p, "remove_katello_satellite_packages", "body")
    \/ RemoveLoop(p, "remove_katello_satellite_packages", removed_pkgs_katello)

install_centos_packages(p) ==
    \/ Guard(p, "install_centos_packages", "body")
    \/ /\ pc[p] = "install_centos_packages"
       /\ at[p] = "body"
       /\ Issue(p, "yum localinstall", installed_pkgs[i[p]])
       /\ \/ Advance(p, i[p] = Len(installed_pkgs))
          \/ HardFailure(p) /\ UNCHANGED i
       /\ UNCHANGED <<hostvars, statuses, grub_config_path, pkgs, todo>>
       /\ UNCHANGED <<facts, ran, start_file, body_file, wrote, written>>

update_the_system(p) ==
    \/ Guard(p, "update_the_system", "body")
    \/ OneCommand(p, "update_the_system", "yum update", "-y")

synchronization_of_distribution(p) ==
    \/ Guard(p, "synchronization_of_distribution", "body")
    \/ OneCommand(p, "synchronization_of_distribution", "yum distro-sync", "-y")

\* Faulty variant: the legacy branch is taken whatever the firmware.
is_efi_system_legacy_always(p) ==
    /\ pc[p] = "is_efi_system"
    /\ facts' = [facts EXCEPT ![p].efi = IF is_efi_system_result THEN "True" ELSE "False"]
    /\ grub_config_path' = [grub_config_path EXCEPT ![p] = LEGACY_GRUB_CFG]
    /\ Goto(p, "recreate_grub_config")
    /\ UNCHANGED <<hostvars, i, statuses, pkgs, todo>>
    /\ UNCHANGED <<ran, cmds, start_file, body_file, wrote, failed, histvars>>

\* 'if is_efi_system(): ... else: ...' in main(): the branch fixes the path
\* recreate_grub_config is called with.
is_efi_system(p) ==
    /\ pc[p] = "is_efi_system"
    /\ facts' = [facts EXCEPT ![p].efi = IF is_efi_system_result THEN "True" ELSE "False"]
    /\ grub_config_path' = [grub_config_path EXCEPT ![p] =
            IF is_efi_system_result THEN EFI_GRUB_CFG ELSE LEGACY_GRUB_CFG]
    /\ Goto(p, "recreate_grub_config")
    /\ UNCHANGED <<hostvars, i, statuses, pkgs, todo>>
    /\ UNCHANGED <<ran, cmds, start_file, body_file, wrote, failed, histvars>>

recreate_grub_config(p) ==
    \/ Guard(p, "recreate_grub_config", "body")
    \/ OneCommand(p, "recreate_grub_config", "grub2-mkconfig -o", grub_config_path[p])

\* str.split() of the vendor: its whitespace-separated words.
VendorWords(vendor) ==
    CASE vendor = "CentOS" -> <<"CentOS">>
      [] vendor = "Red Hat, Inc." -> <<"Red", "Hat,", "Inc.">>

\* 'kernel_pkg_name, vendor = <output>.strip().split()' raises ValueError
\* unless the line "<nvra>\t<vendor>" splits into exactly two words.
kernel_unpack_raises ==
    \E r \in rpmdb :
        /\ r.name = DefaultKernelName
        /\ Len(<<r.pkg>> \o VendorWords(r.vendor)) # 2

reinstall_secure_boot_related_packages(p) ==
    \/ Guard(p, "reinstall_secure_boot_related_packages", "query")
    \/ /\ pc[p] = "reinstall_secure_boot_related_packages"
       /\ \/ /\ at[p] = "query"
             /\ facts' = [facts EXCEPT ![p].secure_boot = "answered"]
             /\ IF kernel_unpack_raises
                THEN HardFailure(p) /\ UNCHANGED <<pkgs, todo>>
                ELSE /\ pkgs' = [pkgs EXCEPT ![p] =
                            update(get_pkgs_related_to_secure_boot,
                                   get_kernel_pkg_name_for_default_boot_record)]
                     /\ todo' = [todo EXCEPT ![p] = DOMAIN pkgs'[p]]
                     /\ at' = [at EXCEPT ![p] = "body"]
                     /\ UNCHANGED <<pc, completed_bodies, retry_due, failed>>
             /\ UNCHANGED <<rpmdb, cmds>>
          \/ /\ at[p] = "query"
             /\ facts' = [facts EXCEPT ![p].secure_boot = "CalledProcessError"]
             /\ HardFailure(p)
             /\ UNCHANGED <<rpmdb, cmds, pkgs, todo>>
          \/ /\ at[p] = "body"
             /\ todo[p] = {}
             /\ BodyDone(p)
             /\ UNCHANGED <<rpmdb, cmds, pkgs, todo, facts>>
          \/ /\ at[p] = "body"
             /\ \E pkg \in todo[p] :
                  /\ pkgs[p][pkg] = "centos"
                  /\ todo' = [todo EXCEPT ![p] = @ \ {pkg}]
             /\ UNCHANGED <<rpmdb, cmds, pkgs, pc, at, completed_bodies, retry_due, failed, facts>>
          \/ /\ at[p] = "body"
             /\ \E pkg \in todo[p] :
                  /\ pkgs[p][pkg] # "centos"
                  /\ Issue(p, "yum reinstall -y", pkg)
                  /\ rpmdb' = { IF r.pkg = pkg THEN [r EXCEPT !.vendor = CentOS] ELSE r :
                                    r \in rpmdb }
                  /\ todo' = [todo EXCEPT ![p] = @ \ {pkg}]
             /\ UNCHANGED <<pkgs, pc, at, completed_bodies, retry_due, failed, facts>>
          \/ /\ at[p] = "body"
             /\ \E pkg \in todo[p] :
                  /\ pkgs[p][pkg] # "centos"
                  /\ Issue(p, "yum reinstall -y", pkg)
             /\ HardFailure(p)
             /\ UNCHANGED <<rpmdb, pkgs, todo, facts>>
       /\ UNCHANGED <<status_file, installed, dirs, efi, i, statuses, grub_config_path>>
       /\ UNCHANGED <<ran, start_file, body_file, wrote, written>>

add_boot_record_by_efibootmgr(p) ==
    \/ Guard(p, "add_boot_record_by_efibootmgr", "body")
    \/ OneCommand(p, "add_boot_record_by_efibootmgr",
                  "efibootmgr -c -L CentOS Linux -l", "/EFI/centos/shimx64.efi")

\* Faulty variant: the answer of 'grubby --info=DEFAULT' is ignored and the
\* default record is set in any case.
check_and_set_default_grub_record_sets_always(p) ==
    \/ Guard(p, "check_and_set_default_grub_record", "body")
    \/ /\ pc[p] = "check_and_set_default_grub_record"
       /\ at[p] = "body"
       /\ \/ /\ facts' = [facts EXCEPT ![p].grub_default = "exists"]
             /\ Issue(p, "grubby --set-default", "grubby --default-kernel")
             /\ BodyDone(p)
          \/ /\ facts' = [facts EXCEPT ![p].grub_default = "empty"]
             /\ Issue(p, "grubby --set-default", "grubby --default-kernel")
             /\ BodyDone(p)
          \/ /\ facts' = [facts EXCEPT ![p].grub_default = "empty"]
             /\ Issue(p, "grubby --set-default", "grubby --default-kernel")
             /\ HardFailure(p)
       /\ UNCHANGED <<hostvars, i, statuses, grub_config_path, pkgs, todo>>
       /\ UNCHANGED <<ran, start_file, body_file, wrote, written>>

\* 'grubby --info=DEFAULT' tells whether a default record is configured.
check_and_set_default_grub_record(p) ==
    \/ Guard(p, "check_and_set_default_grub_record", "body")
    \/ /\ pc[p] = "check_and_set_default_grub_record"
       /\ at[p] = "body"
       /\ \/ /\ facts' = [facts EXCEPT ![p].grub_default = "exists"]
             /\ BodyDone(p)
             /\ UNCHANGED cmds
          \/ /\ facts' = [facts EXCEPT ![p].grub_default = "empty"]
             /\ Issue(p, "grubby --set-default", "grubby --default-kernel")
             /\ BodyDone(p)
          \/ /\ facts' = [facts EXCEPT ![p].grub_default = "empty"]
             /\ Issue(p, "grubby --set-default", "grubby --default-kernel")
             /\ HardFailure(p)
       /\ UNCHANGED <<hostvars, i, statuses, grub_config_path, pkgs, todo>>
       /\ UNCHANGED <<ran, start_file, body_file, wrote, written>>

\* ------------------------------------------------------------------------
\* main() and the specification
\* ------------------------------------------------------------------------

main(p) ==
    \/ is_conversion_completed(p)
    \/ is_run_under_root(p)
    \/ check_supported_os(p)
    \/ remove_redhat_packages(p)
    \/ remove_not_needed_dirs(p)
    \/ is_katello_satelite(p)
    \/ remove_katello_satellite_packages(p)
    \/ install_centos_packages(p)
    \/ update_the_system(p)
    \/ synchronization_of_distribution(p)
    \/ is_efi_system(p)
    \/ recreate_grub_config(p)
    \/ reinstall_secure_boot_related_packages(p)
    \/ add_boot_record_by_efibootmgr(p)
    \/ check_and_set_default_grub_record(p)
    \/ set_successful_stage_status(p)

\* Sequential use: one run at a time.
Next ==
    \E p \in SeqProcs :
        \/ StartRun(p)
        \/ main(p)
        \/ Kill(p)

Spec == Init /\ [][Next]_vars

\* Concurrent use: main() is started twice on one host (two operators, or a
\* scheduler and an operator); nothing in the program serialises the two
\* processes.  The host is an EFI host with the Katello packages installed
\* and a secure-boot package to reconcile.
InitConc ==
    /\ Init
    /\ efi
    /\ installed = {"redhat-release-server",
                    "python-qpid-proton", "python2-qpid-proton", "katello-agent"}
    /\ dirs = {"/usr/share/redhat-release"}
    /\ \E r \in rpmdb : r.name = DefaultKernelName /\ r.vendor = CentOS

\* The second run is started while the first one is in its later stages.
StartConc(p) ==
    /\ pc[p] = "idle"
    /\ p # "run1" => "synchronization_of_distribution" \in ran["run1"]
    /\ StartRun(p)

NextConc ==
    \E p \in Procs :
        \/ StartConc(p)
        \/ main(p)

SpecConc == InitConc /\ [][NextConc]_vars

\* Rerunning: the operator starts main() again whenever the previous run has
\* ended, no run is killed, and every external command returns, so a run
\* that can take a step eventually takes it.
NextRerun ==
    \E p \in SeqProcs :
        \/ StartRun(p)
        \/ main(p)

SpecRerun == Init /\ [][NextRerun]_vars /\ WF_vars(NextRerun)

\* ------------------------------------------------------------------------
\* Properties
\* ------------------------------------------------------------------------

ValidFlags(file) == IF file.state = "valid" THEN file.flags ELSE {}

\* C1: a run of main() that starts with 'completed' true in the status
\* document enters no stage body, issues no command, does not write the
\* status document, and ends with exit code 0 at is_conversion_completed,
\* before the privilege and OS probes are made.
C1_Idempotence ==
    \A p \in Procs :
        "completed" \in ValidFlags(start_file[p]) =>
            /\ pc[p] \in {"is_conversion_completed", "exit0", "killed"}
            /\ ran[p] = {}
            /\ cmds[p] = {}
            /\ ~wrote[p]
            /\ facts[p] = NoFacts

\* A second run on a migrated host has ended.
C1_Witness ==
    \E p \in Procs :
        /\ "completed" \in ValidFlags(start_file[p])
        /\ pc[p] = "exit0"

\* The stages a run that went through main() to its end must have visited:
\* the unconditional ones, and the conditional ones of the branches it took.
Applicable(p) ==
    (Stages \ {"remove_katello_satellite_packages",
               "reinstall_secure_boot_related_packages",
               "add_boot_record_by_efibootmgr"})
    \cup (IF facts[p].katello = "True"
          THEN {"remove_katello_satellite_packages"} ELSE {})
    \cup (IF facts[p].efi = "True"
          THEN {"reinstall_secure_boot_related_packages",
                "add_boot_record_by_efibootmgr"} ELSE {})

FinishedMain(p) == pc[p] = "exit0" /\ "completed" \in statuses[p]

\* A run skips the body of every stage flagged when it started and, when it
\* goes through main() to its end, has entered the body of every applicable
\* stage that was not flagged.
SkipsFlaggedRunsUnflagged ==
    \A p \in Procs :
        /\ ran[p] \cap ValidFlags(start_file[p]) = {}
        /\ FinishedMain(p) =>
              Applicable(p) \ ValidFlags(start_file[p]) \subseteq ran[p]

\* The stages whose body this step enters.
Entered(p) == ran'[p] \ ran[p]

C3_FailFast ==
    \A p \in Procs :
        failed[p] # "none" =>
            /\ pc[p] = "exit1"
            /\ status_file = body_file[p]
            /\ failed[p] \notin ValidFlags(status_file)
            /\ "completed" \notin ValidFlags(status_file)
            /\ \A s \in ran[p] : ~After(s, failed[p])

\* The second package of install_centos_packages failed after the first
\* succeeded.
C3_Witness ==
    \E p \in Procs :
        /\ failed[p] = "install_centos_packages"
        /\ <<"yum localinstall", installed_pkgs[2]>> \in cmds[p]
        /\ pc[p] = "exit1"

\* C4: after a run aborted with a hard failure inside stage C's body, no run
\* enters the body of a stage after C until C's body has been entered again.
C4_RetryAfterFailure ==
    retry_due # "none" =>
        \A p \in Procs : \A s \in ran[p] : ~After(s, retry_due)

\* What get_os_version_and_name returned in this run.
Probed(p) == get_os_version_and_name(facts[p].dist)

OsProbed(p) == facts[p].dist # NoDist

ProbedMismatch(p) ==
    /\ OsProbed(p)
    /\ ~Probed(p).raised
    /\ ~(Probed(p).major = SUPPORTED_MAJOR_VERSION_OS /\ Probed(p).name = SUPPORTED_NAME_OS)

ProbedMatch(p) ==
    /\ OsProbed(p)
    /\ ~Probed(p).raised
    /\ Probed(p).major = SUPPORTED_MAJOR_VERSION_OS
    /\ Probed(p).name = SUPPORTED_NAME_OS

C6_ReadNeverFails ==
    (\A p \in Procs : Stopped(p)) =>
        \A k \in Keys : get_stage_status(k) \in {"True", "False"}

\* C7: while the document is absent or a complete document, get_stage_status
\* returns true for exactly the identifiers set_successful_stage_status has
\* completed for, and false for every other one.
C7_RoundTrip ==
    status_file.state # "corrupt" =>
        \A k \in Keys :
            get_stage_status(k) = IF k \in written THEN "True" ELSE "False"

\* Between two runs the document holds some keys and lacks others.
C7_Witness ==
    /\ \A p \in Procs : Stopped(p)
    /\ status_file.state = "valid"
    /\ get_stage_status("remove_not_needed_dirs") = "True"
    /\ get_stage_status("update_the_system") = "False"
    /\ "remove_redhat_packages" \in written

GrubPaths(p) == { c[2] : c \in { d \in cmds[p] : d[1] = "grub2-mkconfig -o" } }

EfiStages == {"reinstall_secure_boot_related_packages", "add_boot_record_by_efibootmgr"}

\* C8: on an EFI system grub2-mkconfig is only given the EFI path; otherwise
\* only the legacy path, and neither EFI-only stage body is entered.
C8_BranchSelection ==
    \A p \in Procs :
        /\ efi => GrubPaths(p) \subseteq {EFI_GRUB_CFG}
        /\ ~efi => /\ GrubPaths(p) \subseteq {LEGACY_GRUB_CFG}
                   /\ ran[p] \cap EfiStages = {}

\* A run on a legacy-boot host went through main() to its end.
C8_Witness ==
    \E p \in Procs :
        /\ ~efi
        /\ GrubPaths(p) = {LEGACY_GRUB_CFG}
        /\ FinishedMain(p)

KatelloRemovals(p) ==
    { c \in cmds[p] :
        /\ c[1] = "rpm -e --nodeps"
        /\ \E n \in DOMAIN removed_pkgs_katello : c[2] = removed_pkgs_katello[n] }

\* C9: main() calls remove_katello_satellite_packages exactly when both
\* python-qpid-proton and python2-qpid-proton are installed; in a run where
\* is_katello_satelite is false the stage's body is not entered, none of its
\* removals is issued and its flag is not written.
C9_AndDetection ==
    [][ \A p \in Procs :
          /\ ( pc[p] = "is_katello_satelite"
               /\ pc'[p] \notin {"is_katello_satelite", "killed"} ) =>
                  ( pc'[p] = "remove_katello_satellite_packages"
                    <=> {"python-qpid-proton", "python2-qpid-proton"} \subseteq installed )
          /\ (pc'[p] # "idle" /\ facts'[p].katello # "True") =>
                /\ "remove_katello_satellite_packages" \notin ran'[p]
                /\ KatelloRemovals(p)' = {}
                /\ "remove_katello_satellite_packages" \in ValidFlags(status_file') =>
                      "remove_katello_satellite_packages" \in ValidFlags(start_file'[p]) ]_vars

\* Only one of the two packages is installed and the run went on to
\* install_centos_packages.
C9_Witness ==
    \E p \in Procs :
        /\ facts[p].katello = "False"
        /\ "python-qpid-proton" \in installed
        /\ "python2-qpid-proton" \notin installed
        /\ "install_centos_packages" \in ran[p]

\* The number a string of digits denotes.
RECURSIVE Decimal(_)
Decimal(chars) ==
    IF chars = <<>> THEN 0
    ELSE 10 * Decimal(SubSeq(chars, 1, Len(chars) - 1)) + Digit[chars[Len(chars)]]

\* The part of a version string before its first dot.
BeforeDot(chars) ==
    LET dots == { n \in DOMAIN chars : chars[n] = "." } IN
    IF dots = {} THEN chars
    ELSE SubSeq(chars, 1, (CHOOSE n \in dots : \A m \in dots : n <= m) - 1)

\* The host is the supported one: version 7 of 'redhat'.
HostSupported(dist) ==
    /\ dist.os_name = SUPPORTED_NAME_OS
    /\ Decimal(BeforeDot(dist.os_version)) = SUPPORTED_MAJOR_VERSION_OS

\* The run ended at one of the three entry checks.
EndedAtEntry(p) ==
    /\ pc[p] \in {"exit0", "exit1"}
    /\ \/ "completed" \in ValidFlags(start_file[p])
       \/ facts[p].euid = "user"
       \/ OsProbed(p) /\ ~HostSupported(facts[p].dist)

\* C10: a run that ends because the migration is completed, the effective UID
\* is not 0, or the OS is not version 7 of 'redhat', ends with exit code 0,
\* enters no stage body and leaves the status document as it found it.
C10_CleanExits ==
    \A p \in Procs :
        EndedAtEntry(p) =>
            /\ pc[p] = "exit0"
            /\ ran[p] \cap MutatingStages = {}
            /\ status_file = start_file[p]

\* The order the claim gives the stage bodies.
StageOrder ==
    << "remove_redhat_packages",
       "remove_not_needed_dirs",
       "remove_katello_satellite_packages",
       "install_centos_packages",
       "update_the_system",
       "synchronization_of_distribution",
       "recreate_grub_config",
       "reinstall_secure_boot_related_packages",
       "add_boot_record_by_efibootmgr",
       "check_and_set_default_grub_record" >>

Rank(s) == CHOOSE n \in DOMAIN StageOrder : StageOrder[n] = s

\* The stages main() calls on every path, in StageOrder.
Unconditional ==
    << "check_supported_os",
       "remove_redhat_packages",
       "remove_not_needed_dirs",
       "install_centos_packages",
       "update_the_system",
       "synchronization_of_distribution",
       "recreate_grub_config",
       "check_and_set_default_grub_record" >>

\* The flags of the unconditional stages that are true form a prefix.
PrefixClosed(flags) ==
    \A n \in DOMAIN Unconditional :
        Unconditional[n] \in flags =>
            \A m \in 1..n : Unconditional[m] \in flags

\* C11: within a run a stage body is entered only after the bodies of stages
\* earlier in the fixed order (never one later or the same again), and in
\* every state of sequential runs from an empty document the true flags of
\* the unconditional stages form a prefix of that order.
C11_OrderAndPrefix ==
    [][ /\ \A p \in Procs : \A s \in Entered(p) :
              s \in MutatingStages =>
                  \A t \in ran[p] \cap MutatingStages : Rank(t) < Rank(s)
        /\ PrefixClosed(ValidFlags(status_file')) ]_vars

\* A resumed run is in the body of synchronization_of_distribution: the
\* document holds the flags up to update_the_system and none after it.
C11_Witness ==
    \E p \in Procs :
        /\ pc[p] = "synchronization_of_distribution"
        /\ at[p] = "body"
        /\ "remove_redhat_packages" \notin ran[p]
        /\ "update_the_system" \in ran[p]
        /\ "update_the_system" \in ValidFlags(status_file)
        /\ "synchronization_of_distribution" \notin ValidFlags(status_file)

UnconditionalStages == { Unconditional[n] : n \in DOMAIN Unconditional }

\* The run got past is_conversion_completed, is_run_under_root and
\* check_supported_os.
PassedEntryChecks(p) ==
    /\ start_file[p].state # "corrupt"
    /\ "completed" \notin ValidFlags(start_file[p])
    /\ facts[p].euid = "root"
    /\ \/ facts[p].os = "supported"
       \/ "check_supported_os" \in ValidFlags(start_file[p])

\* C12: while 'completed' is true in the document, the flags of all the
\* unconditional stages are true, and so are those of the two EFI stages on
\* an EFI host (the run that wrote 'completed' saw the host's firmware); a
\* run that passed the three entry checks and ended with exit code 0 has left
\* 'completed' true.
C12_CompletedLast ==
    /\ "completed" \in ValidFlags(status_file) =>
          /\ UnconditionalStages \subseteq ValidFlags(status_file)
          /\ efi => EfiStages \subseteq ValidFlags(status_file)
    /\ \A p \in Procs :
          /\ (FinishedMain(p) /\ facts[p].efi = "True") =>
                EfiStages \subseteq ValidFlags(status_file)
          /\ (pc[p] = "exit0" /\ PassedEntryChecks(p)) =>
                "completed" \in ValidFlags(status_file)

\* A run on an EFI host went through main() to its end.
C12_Witness ==
    \E p \in Procs :
        /\ FinishedMain(p)
        /\ PassedEntryChecks(p)
        /\ facts[p].efi = "True"
        /\ "completed" \in ValidFlags(status_file)
        /\ "add_boot_record_by_efibootmgr" \in ran[p]

\* C13: over any sequence of sequential runs no flag that was made true is
\* ever false or missing again: between runs, every key
\* set_successful_stage_status has completed for reads as true.
C13_Monotone ==
    (\A p \in Procs : Stopped(p)) =>
        \A k \in written : get_stage_status(k) = "True"

RemovalStages == {"remove_redhat_packages", "remove_katello_satellite_packages"}

\* The packages a removal stage goes through, and the function main() calls
\* after it.
ListedPkgs(stage) ==
    IF stage = "remove_redhat_packages"
    THEN <<"redhat-release-eula", "redhat-release-server", "redhat-logos">>
    ELSE <<"python-qpid-proton", "katello-agent">>

CalledAfter(stage) ==
    IF stage = "remove_redhat_packages"
    THEN "remove_not_needed_dirs"
    ELSE "install_centos_packages"

Removals(p) == { c \in cmds[p] : c[1] = "rpm -e --nodeps" }

\* The run took a step of its own (it was not killed).
Stepped(p) ==
    /\ <<pc[p], at[p], i[p]>> # <<pc'[p], at'[p], i'[p]>>
    /\ pc'[p] # "killed"

\* C14: in the two removal stages, the step for a listed package that is not
\* installed issues no command and goes on to the next package (after the
\* last one: to the write of the flag); a removal is only issued for an
\* installed package; the run leaves the stage with exit code 1 only when a
\* removal it issued failed, and otherwise leaves it with the stage's flag
\* true, for the function main() calls next.
C14_AbsenceIsNoFailure ==
    [][ \A p \in Procs :
          LET stage == pc[p]
              pkg == ListedPkgs(stage)[i[p]]
              last == i[p] = Len(ListedPkgs(stage))
          IN
          (stage \in RemovalStages /\ stage \in ran[p] /\ Stepped(p)) =>
              /\ (at[p] = "body" /\ pkg \notin installed) =>
                    /\ cmds'[p] = cmds[p]
                    /\ installed' = installed
                    /\ pc'[p] = stage
                    /\ failed'[p] = "none"
                    /\ IF last THEN at'[p] = "read"
                               ELSE at'[p] = "body" /\ i'[p] = i[p] + 1
              /\ (at[p] = "body" /\ pkg \in installed) =>
                    /\ cmds'[p] = cmds[p] \cup {<<"rpm -e --nodeps", pkg>>}
                    /\ \/ failed'[p] = stage /\ pc'[p] = "exit1"
                       \/ /\ pc'[p] = stage
                          /\ IF last THEN at'[p] = "read"
                                     ELSE at'[p] = "body" /\ i'[p] = i[p] + 1
              /\ pc'[p] = "exit1" => failed'[p] = stage /\ pkg \in installed
              /\ pc'[p] \notin {stage, "exit1"} =>
                    /\ pc'[p] = CalledAfter(stage)
                    /\ stage \in ValidFlags(status_file') ]_vars

\* None of the packages of remove_redhat_packages was installed: the run
\* issued no removal, set the flag and is at remove_not_needed_dirs.
C14_Witness ==
    \E p \in Procs :
        /\ "remove_redhat_packages" \in ran[p]
        /\ Removals(p) = {}
        /\ "remove_redhat_packages" \in ValidFlags(status_file)
        /\ pc[p] = "remove_not_needed_dirs"

SetDefaultIssued(p) ==
    \E c \in cmds[p] : c[1] = "grubby --set-default"

\* C15: in the body of check_and_set_default_grub_record the set-default
\* command is issued exactly when the query found no default record; the
\* body then goes on to the write of the stage's flag when a default exists
\* or the command succeeded, and the run leaves the stage for the write of
\* 'completed' with the stage's flag true; when the command failed the run
\* ends with exit code 1 and neither the stage's flag nor 'completed' is true.
C15_DefaultRecord ==
    [][ \A p \in Procs :
          LET stage == "check_and_set_default_grub_record" IN
          /\ (pc[p] = stage /\ stage \in ran[p] /\ Stepped(p)) =>
                /\ at[p] = "body" =>
                      /\ facts[p].grub_default = "unprobed"
                      /\ ~SetDefaultIssued(p)
                      /\ facts'[p].grub_default \in {"exists", "empty"}
                      /\ SetDefaultIssued(p)' <=> facts'[p].grub_default = "empty"
                      /\ facts'[p].grub_default = "exists" =>
                            pc'[p] = stage /\ at'[p] = "read" /\ failed'[p] = "none"
                      /\ facts'[p].grub_default = "empty" =>
                            \/ pc'[p] = stage /\ at'[p] = "read" /\ failed'[p] = "none"
                            \/ pc'[p] = "exit1" /\ failed'[p] = stage
                /\ pc'[p] = "exit1" => failed'[p] = stage
                /\ pc'[p] \notin {stage, "exit1"} =>
                      /\ pc'[p] = "completed"
                      /\ stage \in ValidFlags(status_file')
          /\ failed'[p] = stage =>
                /\ pc'[p] = "exit1"
                /\ SetDefaultIssued(p)'
                /\ stage \notin ValidFlags(status_file')
                /\ "completed" \notin ValidFlags(status_file') ]_vars

\* No default record was configured and setting one failed.
C15_Witness ==
    \E p \in Procs :
        /\ facts[p].grub_default = "empty"
        /\ SetDefaultIssued(p)
        /\ failed[p] = "check_and_set_default_grub_record"
        /\ pc[p] = "exit1"

\* A row of the rpm database the stage's two queries select.
SecureBootRelated(r) ==
    \/ \E prefix \in { <<"s","h","i","m">>, <<"f","w","u","p","d">>,
                       <<"g","r","u","b","2">>, <<"k","e","r","n","e","l","-">> } :
          startswith(NameChars(r.name), prefix)
    \/ r.name = DefaultKernelName

\* The selected packages whose vendor is not CentOS.
ToReconcile(db) ==
    { r.pkg : r \in { x \in db : SecureBootRelated(x) /\ lower(x.vendor) # "centos" } }

Reinstalled(p) ==
    { c[2] : c \in { d \in cmds[p] : d[1] = "yum reinstall -y" } }

\* C16: every package reinstall_secure_boot_related_packages reinstalls is a
\* selected package (prefix shim, fwupd, grub2, kernel-, or the default boot
\* kernel's package) whose vendor is not CentOS at that moment; once its
\* queries have been answered, the run ends in the stage with exit code 1
\* only after a reinstall it issued failed, and it reaches the write of the
\* stage's flag only when no selected package with another vendor is left.
C16_Reconciliation ==
    [][ \A p \in Procs :
          LET stage == "reinstall_secure_boot_related_packages" IN
          /\ Reinstalled(p)' \ Reinstalled(p) \subseteq ToReconcile(rpmdb)
          /\ ( /\ stage \in ran'[p]
               /\ facts'[p].secure_boot = "answered"
               /\ pc'[p] # "killed" ) =>
                /\ failed'[p] = stage =>
                      Reinstalled(p)' \cap ToReconcile(rpmdb') # {}
                /\ ~(pc'[p] = stage /\ at'[p] \in {"query", "body"}) =>
                      failed'[p] = stage \/ ToReconcile(rpmdb') = {} ]_vars

InBody(p, s) == pc[p] = s /\ at[p] \in {"query", "body"}

\* C17: nothing but the document serialises two runs.  A run at a stage's
\* guard enters the body exactly when the flag reads false at that moment,
\* whatever the other run is doing; set_successful_stage_status keeps the
\* document it read, with its key added, and its dump replaces the whole
\* document by it, whatever was written in between.
C17_NoProtection ==
    [][ \A p \in Procs :
          /\ (pc[p] \in Stages /\ at[p] = "guard" /\ Stepped(p)) =>
                (pc[p] \in Entered(p) <=> get_stage_status(pc[p]) = "False")
          /\ (pc[p] \in Keys /\ at[p] = "read" /\ Stepped(p) /\ pc'[p] # "exit1") =>
                statuses'[p] = ValidFlags(status_file) \cup {pc[p]}
          /\ (pc[p] \in Keys /\ at[p] = "dump" /\ Stepped(p)) =>
                status_file' = [state |-> "valid", flags |-> statuses[p]] ]_vars

\* Both runs are in the body of the same stage, each having found its flag
\* false, while a flag one of them had written is missing from the complete
\* document the other wrote back.
C17_Witness ==
    /\ \E s \in MutatingStages :
          \A p \in Procs : InBody(p, s) /\ s \notin ValidFlags(body_file[p])
    /\ status_file.state = "valid"
    /\ \E k \in written : k \notin status_file.flags

\* A step in which a command the run issued or a query it made failed.
CommandFails ==
    \E p \in Procs :
        \/ cmds'[p] # cmds[p] /\ failed'[p] # "none"
        \/ /\ facts'[p].secure_boot = "CalledProcessError"
           /\ facts[p].secure_boot # "CalledProcessError"

\* A step after which the run is one by root on the supported OS in which
\* no command has failed.
Unhindered ==
    /\ ~CommandFails
    /\ \A p \in Procs :
          /\ facts'[p].euid # "user"
          /\ facts'[p].os \in {"unprobed", "supported"}

\* C18: when the operator keeps rerunning main() as root on the supported
\* host and from some point on no command fails, 'completed' is eventually
\* true in the status document.
C18_ProgressByRerunning ==
    <>[][Unhindered]_vars => <>("completed" \in ValidFlags(status_file))

====
